---------------------------- MODULE Spec2Model ----------------------------
(***************************************************************************)
(* Model of russross/mandel: the render engine of package mandel           *)
(* (Parameters.Init, Parameters.Generate, Parameters.CalcPixel, getColor,  *)
(* mandel) and the command-line program that drives it (main,              *)
(* loadPalette).                                                           *)
(*                                                                         *)
(* float64 values are modelled as extended rationals <<n, d>>: d > 0 is    *)
(* the finite value n/d in lowest terms, <<1,0>> is +Inf, <<-1,0>> is -Inf *)
(* and <<0,0>> is NaN.  Arithmetic on them is exact (float64 rounding is   *)
(* not modelled); division by zero and the non-finite values follow        *)
(* IEEE-754 as Go does.  Every divisor the model forms is a non-negative   *)
(* zero, so the sign of zero is not represented.                           *)
(***************************************************************************)
EXTENDS Integers, Sequences, FiniteSets, Bags, TLC

(***************************************************************************)
(* Bounds of the model.                                                    *)
(***************************************************************************)
\* largest runtime.GOMAXPROCS(-1) explored
MaxFanout == 2
\* largest image width explored
MaxSizeX == 2
\* largest image height explored
MaxSizeY == 2
\* largest number of pixels of an image explored
MaxCells == 4
\* largest MaxIterations explored
MaxIters == 3
\* coordinates given to mandel are k/2 with |k| <= MaxCoord
MaxCoord == 5
\* values given to getColor are k/4 with |k| <= MaxValue
MaxValue == 20

(***************************************************************************)
(* float64 as extended rationals.  The operations are functions, so that   *)
(* their arguments are values.                                             *)
(***************************************************************************)
Abs(i) == IF i < 0 THEN -i ELSE i

Sgn(i) == IF i < 0 THEN -1 ELSE IF i > 0 THEN 1 ELSE 0

Float == Int \X Int

gcd[a \in Nat, b \in Nat] == IF b = 0 THEN a ELSE gcd[b, a % b]

NaN == <<0, 0>>
PosInf == <<1, 0>>
NegInf == <<-1, 0>>

\* float64(i) for an int i
F(i) == <<i, 1>>

IsNaN(f) == f = NaN
IsInf(f) == f[2] = 0 /\ f[1] # 0
IsFinite(f) == f[2] > 0

\* n/d, d > 0, in lowest terms
Norm[n \in Int, d \in Int] == <<n \div gcd[Abs(n), d], d \div gcd[Abs(n), d]>>

FNeg[f \in Float] == <<-f[1], f[2]>>

FAdd[f \in Float, g \in Float] ==
    IF IsNaN(f) \/ IsNaN(g) THEN NaN
    ELSE IF IsInf(f) /\ IsInf(g) THEN (IF f = g THEN f ELSE NaN)
    ELSE IF IsInf(f) THEN f
    ELSE IF IsInf(g) THEN g
    ELSE Norm[f[1] * g[2] + g[1] * f[2], f[2] * g[2]]

FSub[f \in Float, g \in Float] == FAdd[f, FNeg[g]]

FMul[f \in Float, g \in Float] ==
    IF IsNaN(f) \/ IsNaN(g) THEN NaN
    ELSE IF IsInf(f) \/ IsInf(g)
         THEN <<Sgn(f[1]) * Sgn(g[1]), 0>>      \* 0 * Inf is NaN
    ELSE Norm[f[1] * g[1], f[2] * g[2]]

FDiv[f \in Float, g \in Float] ==
    IF IsNaN(f) \/ IsNaN(g) THEN NaN
    ELSE IF IsInf(g) THEN (IF IsInf(f) THEN NaN ELSE F(0))
    ELSE IF IsInf(f) THEN <<f[1] * (IF g[1] < 0 THEN -1 ELSE 1), 0>>
    ELSE IF g[1] = 0 THEN <<Sgn(f[1]), 0>>      \* x/0 is +-Inf, 0/0 is NaN
    ELSE Norm[f[1] * g[2] * Sgn(g[1]), f[2] * Abs(g[1])]

\* f >= g; every comparison with NaN is false
FGe[f \in Float, g \in Float] ==
    IF IsNaN(f) \/ IsNaN(g) THEN FALSE
    ELSE IF IsInf(f) THEN (f = PosInf \/ g = NegInf)
    ELSE IF IsInf(g) THEN g = NegInf
    ELSE f[1] * g[2] >= g[1] * f[2]

\* f == g (NaN equals nothing)
FEq[f \in Float, g \in Float] == ~IsNaN(f) /\ ~IsNaN(g) /\ f = g

\* the architecture the program is built for: the conversion of a float64
\* that no int can hold is implementation-dependent
VARIABLE arch

\* the smallest and the largest int (the model's int has 21 bits)
MinInt == -1048576
MaxInt == 1048575

\* int(f) of NaN, +Inf and -Inf: amd64 gives the smallest int for the three,
\* arm64 gives 0 for NaN and saturates
intOfNonFinite(f) ==
    IF arch = "amd64" \/ f = NegInf THEN MinInt
    ELSE IF f = PosInf THEN MaxInt
    ELSE 0

\* int(f): truncation toward zero
Trunc[f \in Float] ==
    IF IsFinite(f) THEN Sgn(f[1]) * (Abs(f[1]) \div f[2]) ELSE intOfNonFinite(f)

\* math.Floor(f), a float64
FFloor[f \in Float] == IF IsFinite(f) THEN F(f[1] \div f[2]) ELSE f

\* int(math.Floor(f))
Floor[f \in Float] == Trunc[FFloor[f]]

\* an int sum, which wraps around
WrapInt(i) == ((i - MinInt) % (MaxInt - MinInt + 1)) + MinInt

\* Go's integer remainder: truncated, the sign of the dividend (b > 0)
GoRem(a, b) == Sgn(a) * (Abs(a) % b)

\* Go's integer quotient: truncated toward zero (b # 0)
GoDiv(a, b) == Sgn(a) * Sgn(b) * (Abs(a) \div Abs(b))

FloorLog2Int[i \in Int] == IF i < 2 THEN 0 ELSE 1 + FloorLog2Int[i \div 2]

\* math.Log2, to the integer below: the model keeps the integer part of the
\* logarithm (floor) and the special cases (Log2(+Inf) = +Inf, Log2(0) = -Inf,
\* Log2(x < 0) = NaN, Log2(NaN) = NaN)
Log2[f \in Float] ==
    IF IsNaN(f) \/ f = NegInf THEN NaN
    ELSE IF f = PosInf THEN PosInf
    ELSE IF f[1] < 0 THEN NaN
    ELSE IF f[1] = 0 THEN NegInf
    ELSE IF f[1] >= f[2] THEN F(FloorLog2Int[f[1] \div f[2]])
    ELSE F(-(1 + FloorLog2Int[(f[2] - 1) \div f[1]]))

(***************************************************************************)
(* package mandel: Parameters, Init, mandel, getColor, CalcPixel.          *)
(* A Parameters value is a record with the fields of the struct; Palette   *)
(* is a sequence of NRGBA colours <<r, g, b, a>>, subpixOffsets a sequence *)
(* of float64 (<< >> is the nil slice).                                    *)
(***************************************************************************)
\* bailout of the discrete mode
DiscreteBailout == 4
\* bailout of the continuous mode: 2 << 16
ContinuousBailout == 131072

\* a variant of subpixOffset that starts at the corner of the pixel: i/n - 0.5
subpixOffsetCorner(i, n) == FSub[FDiv[F(i), F(n)], <<1, 2>>]

\* the subpixel offset i of anti-aliasing level n: (0.5+i)/n - 0.5
subpixOffset(i, n) == FSub[FDiv[FAdd[<<1, 2>>, F(i)], F(n)], <<1, 2>>]

\* Parameters.Init: the parameters it leaves and the error it returns
\* ("nil" for none)
Init(q) ==
    IF q.AntiAlias < 1
    THEN [p |-> q, err |-> "anti-aliasing level must be 1 or higher"]
    ELSE IF Len(q.Palette) < 1
    THEN [p |-> [q EXCEPT !.subpixOffsets =
                    [i \in 1..q.AntiAlias |-> subpixOffset(i - 1, q.AntiAlias)]],
          err |-> "palette must not be empty"]
    ELSE [p |-> [q EXCEPT !.subpixOffsets =
                    [i \in 1..q.AntiAlias |-> subpixOffset(i - 1, q.AntiAlias)]],
          err |-> "nil"]

\* the loop of mandel, from iteration iters with z = a + bi
mandelLoop[iters \in Int, a, b \in Float, maxIters \in Int, x, y \in Float, continuous \in BOOLEAN] ==
    IF iters > maxIters THEN F(0)
    ELSE LET a2 == FMul[a, a]
             b2 == FMul[b, b]
             bailout == IF continuous THEN F(ContinuousBailout) ELSE F(DiscreteBailout)
         IN  IF FGe[FAdd[a2, b2], bailout]
             THEN IF continuous
                  THEN LET nu == Log2[FMul[Log2[FAdd[a2, b2]], <<1, 2>>]]
                       IN  FSub[F(iters + 1), nu]
                  ELSE F(iters)
             ELSE LET ab == FMul[a, b]
                  IN  mandelLoop[iters + 1, FAdd[FSub[a2, b2], x], FAdd[FAdd[ab, ab], y],
                                 maxIters, x, y, continuous]

\* a variant of mandel that starts the recurrence at z = 0 instead of z = c
mandelFromZero(maxIters, x, y, continuous) ==
    mandelLoop[1, F(0), F(0), maxIters, x, y, continuous]

\* the loop of mandel with another bailout and another value at the end of the loop
mandelLoopWith[iters \in Int, a, b \in Float, maxIters \in Int, x, y \in Float, continuous \in BOOLEAN, bailout, last \in Float] ==
    IF iters > maxIters THEN last
    ELSE LET a2 == FMul[a, a]
             b2 == FMul[b, b]
         IN  IF FGe[FAdd[a2, b2], bailout]
             THEN IF continuous
                  THEN LET nu == Log2[FMul[Log2[FAdd[a2, b2]], <<1, 2>>]]
                       IN  FSub[F(iters + 1), nu]
                  ELSE F(iters)
             ELSE LET ab == FMul[a, b]
                  IN  mandelLoopWith[iters + 1, FAdd[FSub[a2, b2], x], FAdd[FAdd[ab, ab], y],
                                     maxIters, x, y, continuous, bailout, last]

\* a variant of mandel that tests |z| against 1
mandelRadiusOne(maxIters, x, y, continuous) ==
    mandelLoopWith[1, x, y, maxIters, x, y, continuous, F(1), F(0)]

\* a variant of mandel that returns maxIters + 1 when the loop ends
mandelCountsPastEnd(maxIters, x, y, continuous) ==
    mandelLoopWith[1, x, y, maxIters, x, y, continuous,
                   IF continuous THEN F(ContinuousBailout) ELSE F(DiscreteBailout),
                   F(maxIters + 1)]

\* a variant of mandel whose continuous bailout is 1 << 16
mandelBailout16(maxIters, x, y, continuous) ==
    mandelLoopWith[1, x, y, maxIters, x, y, continuous,
                   IF continuous THEN F(65536) ELSE F(DiscreteBailout), F(0)]

\* mandel(maxIters, x, y, continuous): the escape-time value of the point
mandel(maxIters, x, y, continuous) == mandelLoop[1, x, y, maxIters, x, y, continuous]

\* the outcome of a computation that can panic
Ok(v) == [ok |-> TRUE, val |-> v, fault |-> "none"]
Panic(msg) == [ok |-> FALSE, val |-> << >>, fault |-> msg]
Outcome == [ok : BOOLEAN, val : Seq(Int), fault : STRING]

\* one channel of the interpolation: int(c1*(1-weight) + c2*weight)
lerp[c1 \in Int, c2 \in Int, weight \in Float] ==
    Trunc[FAdd[FMul[F(c1), FSub[F(1), weight]], FMul[F(c2), weight]]]

\* getColor with the discrete index reduced by shift and, if clamp is FALSE,
\* without the test aa < 1
getColorWith(q, iters, shift, clamp) ==
    LET L == Len(q.Palette)
        color[v \in Float] ==
            IF FEq[v, F(0)]
            THEN Ok(<<q.InsideColor[1], q.InsideColor[2], q.InsideColor[3]>>)
            ELSE IF L = 0 THEN Panic("integer divide by zero")
            ELSE IF ~q.Continuous
            THEN IF GoRem(Trunc[v] - shift, L) < 0 THEN Panic("index out of range")
                 ELSE Ok(<<q.Palette[GoRem(Trunc[v] - shift, L) + 1][1],
                           q.Palette[GoRem(Trunc[v] - shift, L) + 1][2],
                           q.Palette[GoRem(Trunc[v] - shift, L) + 1][3]>>)
            ELSE LET aa == IF clamp /\ Floor[v] < 1 THEN 1 ELSE Floor[v]
                     bb == IF clamp /\ Floor[v] < 1 THEN 2 ELSE Floor[v] + 1
                     weight == FSub[v, FFloor[v]]
                 IN  IF GoRem(aa - 1, L) < 0 \/ GoRem(bb - 1, L) < 0
                     THEN Panic("index out of range")
                     ELSE LET c1 == q.Palette[GoRem(aa - 1, L) + 1]
                              c2 == q.Palette[GoRem(bb - 1, L) + 1]
                          IN  Ok(<<lerp[c1[1], c2[1], weight], lerp[c1[2], c2[2], weight],
                                   lerp[c1[3], c2[3], weight]>>)
    IN  color[iters]

\* a variant of getColor whose discrete index is (iters - 1) % len(p.Palette)
getColorReduced(q, iters) == getColorWith(q, iters, 1, TRUE)

\* a variant of getColor without the test aa < 1
getColorUnclamped(q, iters) == getColorWith(q, iters, 0, FALSE)

\* Parameters.getColor: <<r, g, b>> of an escape-time value
getColor(q, iters) ==
    LET L == Len(q.Palette)
        color[v \in Float] ==
            IF FEq[v, F(0)]
            THEN Ok(<<q.InsideColor[1], q.InsideColor[2], q.InsideColor[3]>>)
            ELSE IF ~q.Continuous
            THEN IF L = 0 THEN Panic("integer divide by zero")
                 ELSE IF GoRem(Trunc[v], L) < 0 THEN Panic("index out of range")
                 ELSE Ok(<<q.Palette[GoRem(Trunc[v], L) + 1][1],
                           q.Palette[GoRem(Trunc[v], L) + 1][2],
                           q.Palette[GoRem(Trunc[v], L) + 1][3]>>)
            ELSE LET aa == IF Floor[v] < 1 THEN 1 ELSE Floor[v]
                     bb == IF Floor[v] < 1 THEN 2 ELSE Floor[v] + 1
                     weight == FSub[v, FFloor[v]]
                 IN  IF L = 0 THEN Panic("integer divide by zero")
                     ELSE LET c1 == q.Palette[GoRem(aa - 1, L) + 1]
                              c2 == q.Palette[GoRem(bb - 1, L) + 1]
                          IN  Ok(<<lerp[c1[1], c2[1], weight], lerp[c1[2], c2[2], weight],
                                   lerp[c1[3], c2[3], weight]>>)
    IN  color[iters]

\* the smaller of SizeX and SizeY
minsize(q) == IF q.SizeY < q.SizeX THEN q.SizeY ELSE q.SizeX

\* p.Magnification*float64(minsize-1), by which the pixel offsets are divided
divisor(q) == FMul[q.Magnification, F(minsize(q) - 1)]

\* the plane coordinates of subpixel (xoffset, yoffset) of pixel (col, row)
planeX(q, col, xoffset) ==
    FAdd[q.CenterX,
         FDiv[FAdd[F(col - GoDiv(q.SizeX, 2)), xoffset],
              divisor(q)]]

planeY(q, row, yoffset) ==
    FSub[q.CenterY,
         FDiv[FSub[F(row - GoDiv(q.SizeY, 2)), yoffset],
              divisor(q)]]

\* a variant of sampleOffsets that takes the same offset for x and y
sampleOffsetsDiagonal(q, k) ==
    <<q.subpixOffsets[(k % Len(q.subpixOffsets)) + 1],
      q.subpixOffsets[(k % Len(q.subpixOffsets)) + 1]>>

\* <<xoffset, yoffset>> of pass k of the loops over the subpixels: yoffset
\* in the outer loop, xoffset in the inner one
sampleOffsets(q, k) ==
    <<q.subpixOffsets[(k % Len(q.subpixOffsets)) + 1],
      q.subpixOffsets[(k \div Len(q.subpixOffsets)) + 1]>>

\* the number of passes of the loops over the subpixels
sampleCount(q) == Len(q.subpixOffsets) * Len(q.subpixOffsets)

\* the sample of pass k
sample(q, col, row, k) ==
    getColor(q, mandel(q.MaxIterations,
                       planeX(q, col, sampleOffsets(q, k)[1]),
                       planeY(q, row, sampleOffsets(q, k)[2]),
                       q.Continuous))

\* the calls of mandel of CalcPixel, in order: the <<xoffset, yoffset>> of each
evaluations(q) == [k \in 1..sampleCount(q) |-> sampleOffsets(q, k - 1)]

\* r, g, b = r+rs, g+gs, b+bs, unless a panic has ended the loop
addSample[acc \in Outcome, s \in Outcome] ==
    IF ~acc.ok THEN acc
    ELSE IF ~s.ok THEN s
    ELSE Ok(<<WrapInt(acc.val[1] + s.val[1]), WrapInt(acc.val[2] + s.val[2]),
              WrapInt(acc.val[3] + s.val[3])>>)

\* the loop over the first k subpixels: the sums r, g, b, or the first panic
RECURSIVE sumSamples(_, _, _, _)
sumSamples(q, col, row, k) ==
    IF k = 0 THEN Ok(<<0, 0, 0>>)
    ELSE addSample[sumSamples(q, col, row, k - 1), sample(q, col, row, k - 1)]

\* color.NRGBA{uint8(r / aa), uint8(g / aa), uint8(b / aa), 255}
average[sums \in Outcome, aa \in Int] ==
    IF ~sums.ok THEN sums
    ELSE IF aa = 0 THEN Panic("integer divide by zero")
    ELSE Ok(<<GoDiv(sums.val[1], aa) % 256, GoDiv(sums.val[2], aa) % 256,
              GoDiv(sums.val[3], aa) % 256, 255>>)

\* Parameters.CalcPixel: the NRGBA colour of pixel (col, row), or a panic
CalcPixel(q, col, row) ==
    IF Len(q.subpixOffsets) # q.AntiAlias
    THEN Panic("CalcPixel cannot be called before Init")
    ELSE average[sumSamples(q, col, row, sampleCount(q)),
                 q.AntiAlias * q.AntiAlias]

(***************************************************************************)
(* cmd/mandel: loadPalette.  A palette file is modelled by what reading    *)
(* and parsing it gives: kind "default" is the empty file name, kind       *)
(* "unreadable" a file ioutil.ReadFile fails on, kind "unparsable" a file  *)
(* json.Unmarshal fails on, and kind "colors" a file that parses to the    *)
(* list of byte lists colors.                                              *)
(***************************************************************************)
\* the built-in palette
defaultColors == << <<0, 0, 0, 255>>, <<255, 255, 255, 255>> >>

\* a variant of appendColors that does not check the number of elements
RECURSIVE appendColorsUnchecked(_, _, _)
appendColorsUnchecked(colors, k, palette) ==
    IF k > Len(colors) THEN Ok(palette)
    ELSE appendColorsUnchecked(colors, k + 1,
             Append(palette, [i \in 1..4 |-> IF i <= Len(colors[k]) THEN colors[k][i] ELSE 0]))

\* the loop over colors k, k+1, ...: the palette appended so far, or the
\* fatal error of the first entry that has not exactly 4 elements
RECURSIVE appendColors(_, _, _)
appendColors(colors, k, palette) ==
    IF k > Len(colors) THEN Ok(palette)
    ELSE IF Len(colors[k]) # 4
    THEN Panic("Error in palette file: each color must have exactly 4 elements")
    ELSE appendColors(colors, k + 1,
                      Append(palette, <<colors[k][1], colors[k][2], colors[k][3],
                                        colors[k][4]>>))

\* loadPalette(filename): the palette, or the message of log.Fatalf
loadPalette(file) ==
    IF file.kind = "default" THEN appendColors(defaultColors, 1, << >>)
    ELSE IF file.kind = "unreadable" THEN Panic("Error reading palette file")
    ELSE IF file.kind = "unparsable" THEN Panic("Error parsing palette JSON data")
    ELSE IF Len(file.colors) < 1 THEN Panic("Palette must have at least color")
    ELSE appendColors(file.colors, 1, << >>)

(***************************************************************************)
(* State.                                                                  *)
(***************************************************************************)
VARIABLES
    mainpc,        \* position of the calling goroutine (main, then Generate)
    p,             \* the Parameters value
    palettefile,   \* the palette file named on the command line
    fanout,        \* runtime.GOMAXPROCS(-1)
    fault,         \* "none", or the panic / log.Fatal message that ended the process
    initErr,       \* what p.Init returned: "uncalled", "nil" or its error
    wpc,           \* position of each row worker
    wrow,          \* row of each row worker
    wcol,          \* col of each row worker
    feedRow,       \* row of the feeding loop
    rowsClosed,    \* close(rows) has happened
    pixelch,       \* the buffer of the pixel channel
    pixelchClosed, \* close(pixelch) has happened
    aggpc,         \* position of the goroutine that sets the pixels
    doneRecv,      \* i of the loop that waits for the workers
    canvas,        \* the image: cell -> NRGBA colour (<< >> before it is allocated)
    rowLog,        \* history: bag of the row indices received from rows
    sentLog,       \* history: bag of the pixels sent on pixelch
    writeLog,      \* history: bag of <<writer, x, y>> for each canvas.Set
    args,          \* the arguments of a direct call
    result,        \* what a direct call of CalcPixel, getColor or mandel returned
    evalLog        \* history: the calls of mandel made by a direct call of CalcPixel

vars == <<mainpc, p, palettefile, fanout, arch, fault, initErr, wpc, wrow, wcol, feedRow,
          rowsClosed, pixelch, pixelchClosed, aggpc, doneRecv, canvas, rowLog,
          sentLog, writeLog, args, result, evalLog>>

\* the variables of a direct call
callVars == <<args, result, evalLog>>

renderVars == <<wpc, wrow, wcol, feedRow, rowsClosed, pixelch, pixelchClosed, aggpc,
                doneRecv, canvas, rowLog, sentLog, writeLog>>

Workers == 1..fanout

\* a pixel as sent on pixelch
pixel(x, y, color) == [x |-> x, y |-> y, color |-> color]

\* the cells of image.NewNRGBA(image.Rect(0, 0, sx, sy)); Rect swaps the
\* corners of a rectangle given with a negative size
Cells(sx, sy) ==
    (IF sx >= 0 THEN 0..(sx - 1) ELSE sx..(-1)) \X (IF sy >= 0 THEN 0..(sy - 1) ELSE sy..(-1))

\* no direct call has returned
NoCall == [call |-> "none", val |-> << >>]

\* the state before Generate has made its channels and goroutines
NoRender ==
    /\ wpc = [w \in 1..fanout |-> "none"]
    /\ wrow = [w \in 1..fanout |-> 0]
    /\ wcol = [w \in 1..fanout |-> 0]
    /\ feedRow = 0
    /\ rowsClosed = FALSE
    /\ pixelch = << >>
    /\ pixelchClosed = FALSE
    /\ aggpc = "none"
    /\ doneRecv = 0
    /\ canvas = << >>
    /\ rowLog = EmptyBag
    /\ sentLog = EmptyBag
    /\ writeLog = EmptyBag


(***************************************************************************)
(* Parameters.Generate.  rows and done are unbuffered: a send and its      *)
(* receive are one step.  pixelch has capacity p.SizeX.  A panic in any    *)
(* goroutine ends the process: fault is set and nothing runs after it.     *)
(***************************************************************************)
\* the check Generate starts with
GenerateEnter ==
    /\ mainpc = "generate" /\ fault = "none"
    /\ IF Len(p.subpixOffsets) # p.AntiAlias
       THEN /\ fault' = "Generate cannot be called before Init"
            /\ mainpc' = mainpc
       ELSE /\ mainpc' = "spawn"
            /\ fault' = fault
    /\ UNCHANGED <<p, palettefile, fanout, arch, initErr, renderVars, callVars>>

\* make the channels, start the row workers, allocate the image, start the
\* goroutine that sets the pixels
SpawnWorkers ==
    /\ mainpc = "spawn" /\ fault = "none"
    /\ IF p.SizeX < 0
       THEN /\ fault' = "makechan: size out of range"
            /\ UNCHANGED <<mainpc, wpc, aggpc, canvas>>
       ELSE /\ wpc' = [w \in Workers |-> "recv"]
            /\ aggpc' = "recv"
            /\ canvas' = [c \in Cells(p.SizeX, p.SizeY) |-> <<0, 0, 0, 0>>]
            /\ mainpc' = "feed"
            /\ fault' = fault
    /\ UNCHANGED <<p, palettefile, fanout, arch, initErr, wrow, wcol, feedRow, rowsClosed,
                   pixelch, pixelchClosed, doneRecv, rowLog, sentLog, writeLog, callVars>>

\* a variant of FeedRow whose loop runs while row <= p.SizeY
FeedRowInclusive(w) ==
    /\ mainpc = "feed" /\ fault = "none"
    /\ feedRow <= p.SizeY
    /\ wpc[w] = "recv" /\ ~rowsClosed
    /\ wrow' = [wrow EXCEPT ![w] = feedRow]
    /\ wcol' = [wcol EXCEPT ![w] = 0]
    /\ wpc' = [wpc EXCEPT ![w] = IF 0 < p.SizeX THEN "calc" ELSE "recv"]
    /\ rowLog' = rowLog (+) SetToBag({feedRow})
    /\ feedRow' = feedRow + 1
    /\ UNCHANGED <<mainpc, p, palettefile, fanout, arch, fault, initErr, rowsClosed, pixelch,
                   pixelchClosed, aggpc, doneRecv, canvas, sentLog, writeLog, callVars>>

\* a variant of FeedRow whose loop hands the rows over from the last to the first
FeedRowDescending(w) ==
    /\ mainpc = "feed" /\ fault = "none"
    /\ feedRow < p.SizeY
    /\ wpc[w] = "recv" /\ ~rowsClosed
    /\ wrow' = [wrow EXCEPT ![w] = p.SizeY - 1 - feedRow]
    /\ wcol' = [wcol EXCEPT ![w] = 0]
    /\ wpc' = [wpc EXCEPT ![w] = IF 0 < p.SizeX THEN "calc" ELSE "recv"]
    /\ rowLog' = rowLog (+) SetToBag({p.SizeY - 1 - feedRow})
    /\ feedRow' = feedRow + 1
    /\ UNCHANGED <<mainpc, p, palettefile, fanout, arch, fault, initErr, rowsClosed, pixelch,
                   pixelchClosed, aggpc, doneRecv, canvas, sentLog, writeLog, callVars>>

\* rows <- row, received by worker w at its range loop
FeedRow(w) ==
    /\ mainpc = "feed" /\ fault = "none"
    /\ feedRow < p.SizeY
    /\ wpc[w] = "recv" /\ ~rowsClosed
    /\ wrow' = [wrow EXCEPT ![w] = feedRow]
    /\ wcol' = [wcol EXCEPT ![w] = 0]
    /\ wpc' = [wpc EXCEPT ![w] = IF 0 < p.SizeX THEN "calc" ELSE "recv"]
    /\ rowLog' = rowLog (+) SetToBag({feedRow})
    /\ feedRow' = feedRow + 1
    /\ UNCHANGED <<mainpc, p, palettefile, fanout, arch, fault, initErr, rowsClosed, pixelch,
                   pixelchClosed, aggpc, doneRecv, canvas, sentLog, writeLog, callVars>>

\* a variant of CloseRows that leaves rows open
CloseRowsForgotten ==
    /\ mainpc = "feed" /\ fault = "none"
    /\ ~(feedRow < p.SizeY)
    /\ doneRecv' = 0
    /\ mainpc' = "wait"
    /\ UNCHANGED <<p, palettefile, fanout, arch, fault, initErr, wpc, wrow, wcol, feedRow,
                   rowsClosed, pixelch, pixelchClosed, aggpc, canvas, rowLog, sentLog,
                   writeLog, callVars>>

\* close(rows), after the feeding loop
CloseRows ==
    /\ mainpc = "feed" /\ fault = "none"
    /\ ~(feedRow < p.SizeY)
    /\ rowsClosed' = TRUE
    /\ doneRecv' = 0
    /\ mainpc' = "wait"
    /\ UNCHANGED <<p, palettefile, fanout, arch, fault, initErr, wpc, wrow, wcol, feedRow,
                   pixelch, pixelchClosed, aggpc, canvas, rowLog, sentLog, writeLog,
                   callVars>>

\* a variant of WorkerSend in which the worker sets the pixel itself
WorkerSet(w) ==
    /\ wpc[w] = "calc" /\ fault = "none"
    /\ LET c == CalcPixel(p, wcol[w], wrow[w]) IN
       /\ c.ok
       /\ canvas' = [canvas EXCEPT ![<<wcol[w], wrow[w]>>] = c.val]
       /\ writeLog' = writeLog (+) SetToBag({<<w, wcol[w], wrow[w]>>})
    /\ wcol' = [wcol EXCEPT ![w] = wcol[w] + 1]
    /\ wpc' = [wpc EXCEPT ![w] = IF wcol[w] + 1 < p.SizeX THEN "calc" ELSE "recv"]
    /\ UNCHANGED <<mainpc, p, palettefile, fanout, arch, fault, initErr, wrow, feedRow,
                   rowsClosed, pixelch, pixelchClosed, aggpc, doneRecv, rowLog, sentLog,
                   callVars>>

\* worker w: color := p.CalcPixel(col, row); pixelch <- pixel{col, row, color}; col++
WorkerSend(w) ==
    /\ wpc[w] = "calc" /\ fault = "none"
    /\ LET c == CalcPixel(p, wcol[w], wrow[w]) IN
       IF ~c.ok
       THEN /\ fault' = c.fault
            /\ UNCHANGED <<wpc, wcol, pixelch, sentLog>>
       ELSE IF pixelchClosed
       THEN /\ fault' = "send on closed channel"
            /\ UNCHANGED <<wpc, wcol, pixelch, sentLog>>
       ELSE /\ Len(pixelch) < p.SizeX
            /\ pixelch' = Append(pixelch, pixel(wcol[w], wrow[w], c.val))
            /\ sentLog' = sentLog (+) SetToBag({pixel(wcol[w], wrow[w], c.val)})
            /\ wcol' = [wcol EXCEPT ![w] = wcol[w] + 1]
            /\ wpc' = [wpc EXCEPT ![w] = IF wcol[w] + 1 < p.SizeX THEN "calc" ELSE "recv"]
            /\ fault' = fault
    /\ UNCHANGED <<mainpc, p, palettefile, fanout, arch, initErr, wrow, feedRow, rowsClosed,
                   pixelchClosed, aggpc, doneRecv, canvas, rowLog, writeLog, callVars>>

\* a variant of WorkerExitLoop in which the worker ends its loop as soon as it
\* finds no row waiting
WorkerExitLoopEarly(w) ==
    /\ wpc[w] = "recv" /\ fault = "none"
    /\ wpc' = [wpc EXCEPT ![w] = "done"]
    /\ UNCHANGED <<mainpc, p, palettefile, fanout, arch, fault, initErr, wrow, wcol, feedRow,
                   rowsClosed, pixelch, pixelchClosed, aggpc, doneRecv, canvas, rowLog,
                   sentLog, writeLog, callVars>>

\* worker w: the range over rows ends, rows being closed
WorkerExitLoop(w) ==
    /\ wpc[w] = "recv" /\ fault = "none"
    /\ rowsClosed
    /\ wpc' = [wpc EXCEPT ![w] = "done"]
    /\ UNCHANGED <<mainpc, p, palettefile, fanout, arch, fault, initErr, wrow, wcol, feedRow,
                   rowsClosed, pixelch, pixelchClosed, aggpc, doneRecv, canvas, rowLog,
                   sentLog, writeLog, callVars>>

\* a variant of Set that takes the pixels in row-major order only: a pixel that
\* arrives after a later one has been set is dropped
SetInOrder(img, x, y, color) ==
    IF /\ <<x, y>> \in DOMAIN img
       /\ \A c \in DOMAIN img : (c[2] > y \/ (c[2] = y /\ c[1] > x)) => img[c][4] = 0
    THEN [img EXCEPT ![<<x, y>>] = color]
    ELSE img

\* canvas.Set(x, y, color): a point outside the image is ignored
Set(img, x, y, color) ==
    IF <<x, y>> \in DOMAIN img THEN [img EXCEPT ![<<x, y>>] = color] ELSE img

\* the setting goroutine: pix := <-pixelch; canvas.Set(pix.x, pix.y, pix.color)
AggRecv ==
    /\ aggpc = "recv" /\ fault = "none"
    /\ pixelch # << >>
    /\ LET pix == Head(pixelch) IN
       /\ canvas' = Set(canvas, pix.x, pix.y, pix.color)
       /\ writeLog' = writeLog (+) SetToBag({<<0, pix.x, pix.y>>})
    /\ pixelch' = Tail(pixelch)
    /\ UNCHANGED <<mainpc, p, palettefile, fanout, arch, fault, initErr, wpc, wrow, wcol,
                   feedRow, rowsClosed, pixelchClosed, aggpc, doneRecv, rowLog, sentLog,
                   callVars>>

\* a variant of AggExitLoop that ends as soon as the loop that waits for the
\* workers has ended, whatever pixelch still holds
AggExitLoopEarly ==
    /\ aggpc = "recv" /\ fault = "none"
    /\ mainpc \in {"final", "returned"}
    /\ aggpc' = "done"
    /\ UNCHANGED <<mainpc, p, palettefile, fanout, arch, fault, initErr, wpc, wrow, wcol,
                   feedRow, rowsClosed, pixelch, pixelchClosed, doneRecv, canvas, rowLog,
                   sentLog, writeLog, callVars>>

\* the setting goroutine: the range over pixelch ends, pixelch being closed and empty
AggExitLoop ==
    /\ aggpc = "recv" /\ fault = "none"
    /\ pixelch = << >> /\ pixelchClosed
    /\ aggpc' = "done"
    /\ UNCHANGED <<mainpc, p, palettefile, fanout, arch, fault, initErr, wpc, wrow, wcol,
                   feedRow, rowsClosed, pixelch, pixelchClosed, doneRecv, canvas, rowLog,
                   sentLog, writeLog, callVars>>

\* goroutine s (a worker, or 0 for the setting goroutine) is at done <- struct{}{}
AtDone(s) == IF s = 0 THEN aggpc = "done" ELSE wpc[s] = "done"

\* goroutine s has sent on done and ends
SentDone(s) ==
    IF s = 0 THEN aggpc' = "exit" /\ wpc' = wpc
    ELSE wpc' = [wpc EXCEPT ![s] = "exit"] /\ aggpc' = aggpc

\* <-done in the loop that waits for the workers, sent by goroutine s
WaitDone(s) ==
    /\ mainpc = "wait" /\ fault = "none"
    /\ doneRecv < fanout
    /\ AtDone(s)
    /\ SentDone(s)
    /\ doneRecv' = doneRecv + 1
    /\ UNCHANGED <<mainpc, p, palettefile, fanout, arch, fault, initErr, wrow, wcol, feedRow,
                   rowsClosed, pixelch, pixelchClosed, canvas, rowLog, sentLog, writeLog,
                   callVars>>

\* a variant of ClosePixelch that returns the canvas without the last <-done
ClosePixelchReturn ==
    /\ mainpc = "wait" /\ fault = "none"
    /\ ~(doneRecv < fanout)
    /\ pixelchClosed' = TRUE
    /\ mainpc' = "returned"
    /\ UNCHANGED <<p, palettefile, fanout, arch, fault, initErr, wpc, wrow, wcol, feedRow,
                   rowsClosed, pixelch, aggpc, doneRecv, canvas, rowLog, sentLog,
                   writeLog, callVars>>

\* a variant of ClosePixelch whose waiting loop stops one signal short
ClosePixelchEarly ==
    /\ mainpc = "wait" /\ fault = "none"
    /\ ~(doneRecv < fanout - 1)
    /\ pixelchClosed' = TRUE
    /\ mainpc' = "final"
    /\ UNCHANGED <<p, palettefile, fanout, arch, fault, initErr, wpc, wrow, wcol, feedRow,
                   rowsClosed, pixelch, aggpc, doneRecv, canvas, rowLog, sentLog,
                   writeLog, callVars>>

\* close(pixelch), after the loop that waits for the workers
ClosePixelch ==
    /\ mainpc = "wait" /\ fault = "none"
    /\ ~(doneRecv < fanout)
    /\ pixelchClosed' = TRUE
    /\ mainpc' = "final"
    /\ UNCHANGED <<p, palettefile, fanout, arch, fault, initErr, wpc, wrow, wcol, feedRow,
                   rowsClosed, pixelch, aggpc, doneRecv, canvas, rowLog, sentLog,
                   writeLog, callVars>>

\* the last <-done, sent by goroutine s, and return canvas
FinalDone(s) ==
    /\ mainpc = "final" /\ fault = "none"
    /\ AtDone(s)
    /\ SentDone(s)
    /\ mainpc' = "returned"
    /\ UNCHANGED <<p, palettefile, fanout, arch, fault, initErr, wrow, wcol, feedRow,
                   rowsClosed, pixelch, pixelchClosed, doneRecv, canvas, rowLog, sentLog,
                   writeLog, callVars>>

\* the steps of Generate
Generate ==
    \/ GenerateEnter
    \/ SpawnWorkers
    \/ \E w \in Workers : FeedRow(w)
    \/ CloseRows
    \/ \E w \in Workers : WorkerSend(w)
    \/ \E w \in Workers : WorkerExitLoop(w)
    \/ AggRecv
    \/ AggExitLoop
    \/ \E s \in 0..fanout : WaitDone(s)
    \/ ClosePixelch
    \/ \E s \in 0..fanout : FinalDone(s)

(***************************************************************************)
(* cmd/mandel: main.                                                       *)
(***************************************************************************)
\* the palette files given on the command line
PaletteFiles ==
    {[kind |-> k, colors |-> << >>] : k \in {"default", "unreadable", "unparsable"}}
    \cup {[kind |-> "colors", colors |-> c] :
             c \in { << >>,
                     << <<10, 20, 30>> >>,
                     << <<10, 20, 30, 255>>, <<1, 2, 3, 4, 5>> >>,
                     << <<10, 20, 30, 255>>, <<200, 100, 50, 255>> >> }}

\* the Parameters after flag.Parse, for images of at most MaxCells pixels
Flags ==
    {q \in [CenterX : {F(0)}, CenterY : {F(0)}, Magnification : {F(1)},
            MaxIterations : {2}, SizeX : 1..MaxSizeX, SizeY : 1..MaxSizeY,
            AntiAlias : {0, 2}, Continuous : {FALSE}, Palette : {<< >>},
            InsideColor : {<<0, 0, 0, 0>>}, subpixOffsets : {<< >>}] :
        q.SizeX * q.SizeY <= MaxCells}

\* the state main starts in, after flag.Parse
StartMain ==
    /\ mainpc = "flags"
    /\ p \in Flags
    /\ palettefile \in PaletteFiles
    /\ fanout \in 1..MaxFanout
    /\ fault = "none"
    /\ initErr = "uncalled"
    /\ args = << >>
    /\ result = NoCall
    /\ arch = "amd64"
    /\ evalLog = << >>
    /\ NoRender

\* if p.AntiAlias < 1 { log.Fatalf(...) }
MainCheckAntiAlias ==
    /\ mainpc = "flags" /\ fault = "none"
    /\ IF p.AntiAlias < 1
       THEN fault' = "Anti-aliasing level must be 1 or higher" /\ mainpc' = mainpc
       ELSE mainpc' = "loadPalette" /\ fault' = fault
    /\ UNCHANGED <<p, palettefile, fanout, arch, initErr, renderVars, callVars>>

\* p.Palette = loadPalette(palettefile)
MainLoadPalette ==
    /\ mainpc = "loadPalette" /\ fault = "none"
    /\ LET r == loadPalette(palettefile) IN
       IF ~r.ok
       THEN fault' = r.fault /\ UNCHANGED <<mainpc, p>>
       ELSE p' = [p EXCEPT !.Palette = r.val] /\ mainpc' = "init" /\ fault' = fault
    /\ UNCHANGED <<palettefile, fanout, arch, initErr, renderVars, callVars>>

\* if err := p.Init(); err != nil { log.Fatal(err) }
MainInit ==
    /\ mainpc = "init" /\ fault = "none"
    /\ LET r == Init(p) IN
       /\ p' = r.p
       /\ initErr' = r.err
       /\ IF r.err # "nil"
          THEN fault' = r.err /\ mainpc' = mainpc
          ELSE mainpc' = "generate" /\ fault' = fault
    /\ UNCHANGED <<palettefile, fanout, arch, renderVars, callVars>>

\* the steps of main up to canvas := p.Generate()
main == MainCheckAntiAlias \/ MainLoadPalette \/ MainInit

Next == main \/ Generate

Spec == StartMain /\ [][Next]_vars


(***************************************************************************)
(* The scheduling of goroutines: a goroutine that can run does run (weak   *)
(* fairness of the steps of main, of each row worker and of the setting    *)
(* goroutine).                                                             *)
(***************************************************************************)
Fairness ==
    /\ WF_vars(\/ main
               \/ GenerateEnter \/ SpawnWorkers
               \/ \E w \in Workers : FeedRow(w)
               \/ CloseRows
               \/ \E s \in 0..fanout : WaitDone(s)
               \/ ClosePixelch
               \/ \E s \in 0..fanout : FinalDone(s))
    /\ \A w \in 1..MaxFanout : WF_vars(w \in Workers /\ (WorkerSend(w) \/ WorkerExitLoop(w)))
    /\ WF_vars(AggRecv \/ AggExitLoop)

FairSpec == StartMain /\ [][Next]_vars /\ Fairness

(***************************************************************************)
(* A client of package mandel: it fills in a Parameters value, may call    *)
(* Init (and may ignore its error), and calls Generate or CalcPixel.       *)
(***************************************************************************)
\* the Parameters values of the client
ApiParams ==
    [CenterX : {F(0)}, CenterY : {F(0)}, Magnification : {F(0), F(1)},
     MaxIterations : {0, 2}, SizeX : {-1, 1, 2}, SizeY : {0, 1, 2},
     AntiAlias : {-1, 0, 1, 2}, Continuous : {FALSE},
     Palette : {<< >>, << <<10, 20, 30, 255>>, <<200, 100, 50, 255>> >>},
     InsideColor : {<<7, 7, 7, 255>>}, subpixOffsets : {<< >>}]

StartApi ==
    /\ mainpc = "client"
    /\ p \in ApiParams
    /\ palettefile = [kind |-> "default", colors |-> << >>]
    /\ fanout \in {1, 2}
    /\ fault = "none"
    /\ initErr = "uncalled"
    /\ args = << >>
    /\ result = NoCall
    /\ arch = "amd64"
    /\ evalLog = << >>
    /\ NoRender

\* err := p.Init(), the error being ignored or not
ApiInit ==
    /\ mainpc = "client" /\ fault = "none"
    /\ initErr = "uncalled"
    /\ p' = Init(p).p
    /\ initErr' = Init(p).err
    /\ UNCHANGED <<mainpc, palettefile, fanout, arch, fault, renderVars, callVars>>

\* p.Generate()
ApiGenerate ==
    /\ mainpc = "client" /\ fault = "none"
    /\ mainpc' = "generate"
    /\ UNCHANGED <<p, palettefile, fanout, arch, fault, initErr, renderVars, callVars>>

\* p.CalcPixel(col, row)
ApiCalcPixel(col, row) ==
    /\ mainpc = "client" /\ fault = "none"
    /\ LET c == CalcPixel(p, col, row) IN
       IF c.ok
       THEN /\ result' = [call |-> "CalcPixel", val |-> c.val]
            /\ args' = <<col, row>>
            /\ evalLog' = evaluations(p)
            /\ mainpc' = "called"
            /\ fault' = fault
       ELSE /\ fault' = c.fault
            /\ UNCHANGED <<mainpc, callVars>>
    /\ UNCHANGED <<p, palettefile, fanout, arch, initErr, renderVars>>

client == ApiInit \/ ApiGenerate \/ \E col \in 0..1, row \in 0..1 : ApiCalcPixel(col, row)

NextApi == client \/ Generate

SpecApi == StartApi /\ [][NextApi]_vars

(***************************************************************************)
(* A direct call of mandel.                                                *)
(***************************************************************************)
\* the points k/2 with |k| <= MaxCoord
Coords == {Norm[k, 2] : k \in (-MaxCoord)..MaxCoord}

\* the points of the continuous mode: small integers
NearCoords == {F(k) : k \in -2..2}

\* points with |c|^2 around 1 << 16 and 2 << 16
FarCoords == {F(k) : k \in {-363, -256, 0, 255, 256, 362, 363}}

\* the calls of mandel: <<maxIters, x, y, continuous>>
MandelCalls ==
    ((0..MaxIters) \X Coords \X Coords \X {FALSE})
      \cup ((0..MaxIters) \X NearCoords \X NearCoords \X {TRUE})
      \cup ({0, 1} \X FarCoords \X FarCoords \X BOOLEAN)

StartMandel ==
    /\ mainpc = "mandel"
    /\ args \in MandelCalls
    /\ p = [CenterX |-> F(0), CenterY |-> F(0), Magnification |-> F(1),
            MaxIterations |-> 0, SizeX |-> 0, SizeY |-> 0, AntiAlias |-> 0,
            Continuous |-> FALSE, Palette |-> << >>, InsideColor |-> <<0, 0, 0, 0>>,
            subpixOffsets |-> << >>]
    /\ palettefile = [kind |-> "default", colors |-> << >>]
    /\ fanout = 1
    /\ fault = "none"
    /\ initErr = "uncalled"
    /\ result = NoCall
    /\ arch = "amd64"
    /\ evalLog = << >>
    /\ NoRender

\* mandel(maxIters, x, y, continuous)
CallMandel ==
    /\ mainpc = "mandel"
    /\ result' = [call |-> "mandel", val |-> mandel(args[1], args[2], args[3], args[4])]
    /\ mainpc' = "called"
    /\ UNCHANGED <<p, palettefile, fanout, arch, fault, initErr, renderVars, args, evalLog>>

NextMandel == CallMandel

SpecMandel == StartMandel /\ [][NextMandel]_vars


(***************************************************************************)
(* A client that computes single pixels: it calls Init on valid            *)
(* Parameters and then CalcPixel.                                          *)
(***************************************************************************)
\* one colour, and two colours
Palette1 == << <<10, 20, 30, 255>> >>
Palette2 == << <<10, 20, 30, 255>>, <<200, 100, 50, 255>> >>
Palette3 == << <<10, 20, 30, 255>>, <<200, 100, 50, 255>>, <<0, 255, 90, 255>> >>

\* the Parameters of the client; a CenterX of +Inf is what a2 overflows to for
\* a large CenterX
PixelParams ==
    [CenterX : {F(0), F(400), PosInf}, CenterY : {F(0)}, Magnification : {F(1)},
     MaxIterations : {1, 2}, SizeX : {1, 2}, SizeY : {1, 2},
     AntiAlias : {1, 2, 3}, Continuous : BOOLEAN, Palette : {Palette1, Palette2},
     InsideColor : {<<7, 7, 7, 255>>}, subpixOffsets : {<< >>}]

StartPixel ==
    /\ mainpc = "client"
    /\ p \in PixelParams
    /\ palettefile = [kind |-> "default", colors |-> << >>]
    /\ fanout = 1
    /\ arch \in {"amd64", "arm64"}
    /\ fault = "none"
    /\ initErr = "uncalled"
    /\ args = << >>
    /\ result = NoCall
    /\ evalLog = << >>
    /\ NoRender

NextPixel == ApiInit \/ \E col \in 0..1, row \in 0..1 : ApiCalcPixel(col, row)

SpecPixel == StartPixel /\ [][NextPixel]_vars

(***************************************************************************)
(* A direct call of getColor.                                              *)
(***************************************************************************)
\* the values given to getColor: the quarters k/4, and the values that are
\* no number
ColorValues == {Norm[k, 4] : k \in (-MaxValue)..MaxValue} \cup {NegInf, PosInf, NaN}

ColorParams ==
    [CenterX : {F(0)}, CenterY : {F(0)}, Magnification : {F(1)},
     MaxIterations : {1}, SizeX : {1}, SizeY : {1},
     AntiAlias : {1}, Continuous : BOOLEAN, Palette : {Palette1, Palette2, Palette3},
     InsideColor : {<<7, 7, 7, 255>>}, subpixOffsets : {<< >>}]

StartColor ==
    /\ mainpc = "getColor"
    /\ p \in ColorParams
    /\ palettefile = [kind |-> "default", colors |-> << >>]
    /\ fanout = 1
    /\ arch \in {"amd64", "arm64"}
    /\ fault = "none"
    /\ initErr = "uncalled"
    /\ args \in {<<v>> : v \in ColorValues}
    /\ result = NoCall
    /\ evalLog = << >>
    /\ NoRender

\* p.getColor(iters)
CallGetColor ==
    /\ mainpc = "getColor" /\ fault = "none"
    /\ LET c == getColor(p, args[1]) IN
       IF c.ok
       THEN /\ result' = [call |-> "getColor", val |-> c.val]
            /\ mainpc' = "called"
            /\ fault' = fault
       ELSE /\ fault' = c.fault
            /\ UNCHANGED <<mainpc, result>>
    /\ UNCHANGED <<p, palettefile, fanout, arch, initErr, renderVars, args, evalLog>>

NextColor == CallGetColor

SpecColor == StartColor /\ [][NextColor]_vars

(***************************************************************************)
(* Properties.                                                             *)
(***************************************************************************)
\* the image a render of p is to give: every cell with the colour of CalcPixel
Rendered(q) == [c \in Cells(q.SizeX, q.SizeY) |-> CalcPixel(q, c[1], c[2]).val]

\* Generate is running its goroutines
Rendering == mainpc \in {"feed", "wait", "final"}

\* C1: when Generate returns the canvas, every row 0..SizeY-1 has been handed
\* to a worker, every worker and the setting goroutine have ended, pixelch is
\* empty, and every cell has been set, to the colour CalcPixel gives for it.
GenerateReturnsComplete ==
    mainpc = "returned" =>
        /\ \A row \in 0..(p.SizeY - 1) : BagIn(row, rowLog)
        /\ \A w \in Workers : wpc[w] = "exit"
        /\ aggpc = "exit"
        /\ pixelch = << >>
        /\ \A c \in Cells(p.SizeX, p.SizeY) :
              /\ BagIn(<<0, c[1], c[2]>>, writeLog)
              /\ canvas[c][4] = 255
              /\ canvas[c] = CalcPixel(p, c[1], c[2]).val

GenerateReturnsCompleteWitness ==
    /\ mainpc = "returned"
    /\ fanout > 1 /\ p.SizeX > 1 /\ p.SizeY > 1

\* C2: a render runs to completion: while Generate runs, some goroutine can
\* always take a step (no deadlock on rows, pixelch or done), and under fair
\* scheduling of the caller, the row workers and the setting goroutine a
\* call of Generate leads to its return.
RenderCompletes ==
    /\ []((mainpc \in {"generate", "spawn"} \/ Rendering) => ENABLED Generate)
    /\ (mainpc = "generate") ~> (mainpc = "returned")

\* every worker is blocked on the full pixel channel
RenderCompletesWitness ==
    /\ Rendering
    /\ fanout > 1
    /\ p.SizeX > 0 /\ Len(pixelch) = p.SizeX
    /\ \A w \in Workers : wpc[w] = "calc"

\* C3: the canvas Generate returns is a function of the parameters alone:
\* whatever the number of workers and the interleaving, it is Rendered(p).
RenderDeterministic == mainpc = "returned" => canvas = Rendered(p)

\* a finished render of an image of more than one colour, by several workers,
\* two of which were given rows
RenderDeterministicWitness ==
    /\ mainpc = "returned"
    /\ fanout > 1
    /\ \E c1, c2 \in DOMAIN canvas : canvas[c1] # canvas[c2]

\* C4: every row index received from rows is in 0..SizeY-1 and is received
\* once; no two workers hold the same row; once rows is closed every row of
\* 0..SizeY-1 has been received.
RowsDistributedOnce ==
    /\ \A row \in BagToSet(rowLog) : row \in 0..(p.SizeY - 1) /\ CopiesIn(row, rowLog) = 1
    /\ \A w1, w2 \in Workers :
          (w1 # w2 /\ wpc[w1] = "calc" /\ wpc[w2] = "calc") => wrow[w1] # wrow[w2]
    /\ rowsClosed => \A row \in 0..(p.SizeY - 1) : CopiesIn(row, rowLog) = 1

RowsDistributedOnceWitness ==
    /\ rowsClosed
    /\ fanout > 1 /\ p.SizeY > 1
    /\ BagCardinality(rowLog) = p.SizeY

\* the cells of the largest image
AllCells == (0..(MaxSizeX - 1)) \X (0..(MaxSizeY - 1))

\* the pixels of cell c that were sent, that pixelch holds, and that were set
SentAt(c) == {pix \in BagToSet(sentLog) : pix.x = c[1] /\ pix.y = c[2]}
InFlightAt(c) == {i \in 1..Len(pixelch) : pixelch[i].x = c[1] /\ pixelch[i].y = c[2]}
WritesAt(c) == CopiesIn(<<0, c[1], c[2]>>, writeLog)

\* C5: every pixel sent on pixelch is received by the setting goroutine and
\* set on the canvas: a pixel sent is either still in pixelch or has been set,
\* once, with its colour; no cell is set twice; a cell that has been set stays
\* set; and every pixel sent is eventually set (again and again a state comes
\* in which every pixel sent so far has been set).
PixelsWrittenOnce ==
    /\ [](\A c \in AllCells :
            /\ \A pix \in SentAt(c) : CopiesIn(pix, sentLog) = 1
            /\ Cardinality(SentAt(c)) <= 1
            /\ WritesAt(c) <= 1
            /\ Cardinality(InFlightAt(c)) + WritesAt(c) = Cardinality(SentAt(c))
            /\ WritesAt(c) = 1 => \A pix \in SentAt(c) : canvas[c] = pix.color)
    /\ [][\A c \in AllCells : WritesAt(c)' >= WritesAt(c)]_vars
    /\ []<>(\A c \in AllCells : SentAt(c) # {} => WritesAt(c) = 1)

\* pixels of two workers are in pixelch while others have been set
PixelsWrittenOnceWitness ==
    /\ Len(pixelch) > 1
    /\ pixelch[1].y # pixelch[2].y
    /\ writeLog # EmptyBag

\* C6: a cell of the canvas changes only in a step of the setting goroutine,
\* which takes one pixel from pixelch and in which no worker and not the
\* caller moves (the caller allocates the canvas before any goroutine can
\* send a pixel).
SingleWriter ==
    [][(mainpc # "spawn" /\ canvas' # canvas) =>
          /\ aggpc = "recv" /\ aggpc' = "recv"
          /\ pixelch # << >> /\ pixelch' = Tail(pixelch)
          /\ canvas' = Set(canvas, Head(pixelch).x, Head(pixelch).y, Head(pixelch).color)
          /\ wpc' = wpc /\ wcol' = wcol /\ wrow' = wrow
          /\ mainpc' = mainpc]_vars

\* cells have been set while two workers are computing
SingleWriterWitness ==
    /\ \E c \in DOMAIN canvas : canvas[c][4] = 255
    /\ \E w1, w2 \in Workers : w1 # w2 /\ wpc[w1] = "calc" /\ wpc[w2] = "calc"

\* C7, as claimed: on Parameters that no successful Init has initialized,
\* Generate does not get past its check and CalcPixel returns no colour.
CallsBeforeInitFail ==
    initErr # "nil" =>
        /\ mainpc \notin {"spawn", "feed", "wait", "final", "returned"}
        /\ result.call # "CalcPixel"

\* the invariants of the parameters
Valid(q) ==
    /\ q.AntiAlias >= 1
    /\ Len(q.Palette) >= 1
    /\ q.MaxIterations >= 1
    /\ q.SizeX >= 1
    /\ q.SizeY >= 1
    /\ q.Magnification[1] > 0

\* C8, as claimed: Init returns nil exactly when the invariants of the
\* parameters hold.
InitDetectsEveryViolation ==
    initErr # "uncalled" => (initErr = "nil" <=> Valid(p))

\* the command line names a configuration error
BadConfig ==
    \/ p.AntiAlias < 1
    \/ palettefile.kind \in {"unreadable", "unparsable"}
    \/ /\ palettefile.kind = "colors"
       /\ \/ palettefile.colors = << >>
          \/ \E k \in 1..Len(palettefile.colors) : Len(palettefile.colors[k]) # 4

\* C9: with a configuration error on the command line, main never reaches
\* Generate: no row worker is started and no pixel is computed, and main
\* goes on to end with a fatal error.
ConfigErrorsStopBeforeRender ==
    BadConfig =>
        /\ mainpc \in {"flags", "loadPalette", "init"}
        /\ \A w \in Workers : wpc[w] = "none"
        /\ aggpc = "none"
        /\ sentLog = EmptyBag
        /\ fault # "none" \/ ENABLED main

\* main has ended on a palette entry that has not 4 channels
ConfigErrorsStopBeforeRenderWitness ==
    /\ BadConfig
    /\ p.AntiAlias >= 1
    /\ fault = "Error in palette file: each color must have exactly 4 elements"

\* C10: in discrete mode, for maxIters >= 1 and x*x + y*y >= 4, mandel
\* returns 1.
EscapeAtFirstIteration ==
    (/\ mainpc = "called" /\ result.call = "mandel"
     /\ args[1] >= 1 /\ ~args[4]
     /\ args[2][1] * args[2][1] * args[3][2] * args[3][2]
          + args[3][1] * args[3][1] * args[2][2] * args[2][2]
          >= 4 * args[2][2] * args[2][2] * args[3][2] * args[3][2])
    => result.val = F(1)

\* a call with more than one iteration allowed, on a point of |c|^2 >= 4 off
\* the axes
EscapeAtFirstIterationWitness ==
    /\ mainpc = "called" /\ result.call = "mandel"
    /\ args[1] > 1 /\ ~args[4]
    /\ args[2] = <<3, 2>> /\ args[3] = <<-3, 2>>
    /\ result.val = F(1)

\* a direct call of mandel has returned
MandelReturned == mainpc = "called" /\ result.call = "mandel"

\* x*x + y*y >= k, for finite x and y
SqNormGe(x, y, k) ==
    x[1] * x[1] * y[2] * y[2] + y[1] * y[1] * x[2] * x[2] >= k * x[2] * x[2] * y[2] * y[2]

\* C11: for the points (0, 0) and (-1, 0) and maxIters >= 1, mandel returns
\* the sentinel 0, in discrete and in continuous mode.
InsidePointsNeverEscape ==
    (/\ MandelReturned
     /\ args[1] >= 1
     /\ <<args[2], args[3]>> \in {<<F(0), F(0)>>, <<F(-1), F(0)>>})
    => result.val = F(0)

\* the point (-1, 0) in continuous mode, with the most iterations
InsidePointsNeverEscapeWitness ==
    /\ MandelReturned
    /\ args = <<MaxIters, F(-1), F(0), TRUE>>
    /\ result.val = F(0)

\* z after k steps of z <- z*z + c from z = c = x + yi, as <<a, b>>
orbit[k \in Nat, x, y \in Float] ==
    IF k = 0 THEN <<x, y>>
    ELSE LET z == orbit[k - 1, x, y]
         IN  <<FAdd[FSub[FMul[z[1], z[1]], FMul[z[2], z[2]]], x],
               FAdd[FMul[F(2), FMul[z[1], z[2]]], y]>>

\* the escape test of the discrete mode succeeds at iteration n
escapesAt(n, x, y) ==
    LET z == orbit[n - 1, x, y]
    IN  FGe[FAdd[FMul[z[1], z[1]], FMul[z[2], z[2]]], F(4)]

\* C12: in discrete mode mandel returns 0 or an integer n of 1..maxIters;
\* n is the first iteration at which the escape test succeeds, and 0 is
\* returned when it succeeds at no iteration of 1..maxIters.
DiscreteCountInRange ==
    (MandelReturned /\ ~args[4]) =>
        /\ \E n \in 0..args[1] : result.val = F(n)
        /\ \A n \in 1..args[1] :
              /\ result.val = F(n) =>
                    /\ escapesAt(n, args[2], args[3])
                    /\ \A m \in 1..(n - 1) : ~escapesAt(m, args[2], args[3])
              /\ result.val = F(0) => ~escapesAt(n, args[2], args[3])
        /\ args[1] = 1 => result.val \in {F(0), F(1)}

\* the point 1 + i escapes at the second and last iteration; (0, 0) with one
\* iteration does not escape
DiscreteCountInRangeWitness ==
    /\ MandelReturned
    /\ args = <<2, F(1), F(1), FALSE>>
    /\ result.val = F(2)

\* C20, as the code has it: with one iteration allowed, mandel returns a
\* value other than the sentinel exactly when x*x + y*y >= 4 in discrete
\* mode and exactly when x*x + y*y >= 131072 (2 << 16) in continuous mode.
BailoutConstants ==
    (MandelReturned /\ args[1] = 1) =>
        (result.val # F(0) <=> SqNormGe(args[2], args[3], IF args[4] THEN 131072 ELSE 4))

\* a continuous call on a point of |c|^2 = 65536, which does not escape
BailoutConstantsWitness ==
    /\ MandelReturned
    /\ args = <<1, F(256), F(0), TRUE>>
    /\ result.val = F(0)

\* C20, as claimed: the continuous mode tests x*x + y*y against 65536.
BailoutConstantsClaimed ==
    (MandelReturned /\ args[1] = 1) =>
        (result.val # F(0) <=> SqNormGe(args[2], args[3], IF args[4] THEN 65536 ELSE 4))

\* a direct call of getColor has returned
GetColorReturned == mainpc = "called" /\ result.call = "getColor"

\* <<r, g, b>> of a colour
rgb(c) == <<c[1], c[2], c[3]>>

\* C13: in discrete mode, for every iteration count n >= 1 and every palette
\* of length L >= 1, getColor returns without a panic and gives the r, g, b of
\* the palette entry at index n mod L; the sentinel 0 gives InsideColor; with
\* a palette of one colour every count gives that colour.
DiscreteColorIndex ==
    LET v == args[1]
        L == Len(p.Palette)
    IN  (mainpc \in {"getColor", "called"} /\ result.call # "mandel" /\ L >= 1) =>
          /\ (~p.Continuous /\ IsFinite(v) /\ v[2] = 1 /\ v[1] >= 1) =>
                /\ fault = "none"
                /\ GetColorReturned => result.val = rgb(p.Palette[(v[1] % L) + 1])
                /\ (GetColorReturned /\ L = 1) => result.val = rgb(p.Palette[1])
          /\ (v = F(0) /\ GetColorReturned) => result.val = rgb(p.InsideColor)

\* the count 4 with a palette of 3 colours gives the second colour
DiscreteColorIndexWitness ==
    /\ GetColorReturned
    /\ ~p.Continuous /\ Len(p.Palette) = 3
    /\ args[1] = F(4)
    /\ result.val = rgb(p.Palette[2])

\* int(c1*(1 - w) + c2*w) for the weight w = wn/wd, 0 <= w < 1
mix(c1, c2, wn, wd) == (c1 * (wd - wn) + c2 * wn) \div wd

\* C18: in continuous mode, for every value v other than the sentinel, with
\* f = floor(v) and a palette of length L >= 1, getColor returns without a
\* panic (no palette index is out of range); for a finite v each channel is
\* the truncated interpolation, with weight v - f, of the palette entries at
\* indices (f-1) mod L and f mod L, or 0 mod L and 1 mod L when f < 1.
ContinuousColorIndex ==
    LET v == args[1]
        L == Len(p.Palette)
        f == v[1] \div v[2]
        i1 == IF f < 1 THEN 0 % L ELSE (f - 1) % L
        i2 == IF f < 1 THEN 1 % L ELSE f % L
    IN  (mainpc \in {"getColor", "called"} /\ result.call # "mandel"
            /\ p.Continuous /\ L >= 1 /\ v # F(0)) =>
          /\ fault = "none"
          /\ (GetColorReturned /\ IsFinite(v)) =>
                /\ i1 \in 0..(L - 1) /\ i2 \in 0..(L - 1)
                /\ \A ch \in 1..3 :
                      result.val[ch] = mix(p.Palette[i1 + 1][ch], p.Palette[i2 + 1][ch],
                                           v[1] - f * v[2], v[2])

\* the value -3/4, whose floor is -1, with a palette of 3 colours
ContinuousColorIndexWitness ==
    /\ GetColorReturned
    /\ p.Continuous /\ Len(p.Palette) = 3
    /\ args[1] = <<-3, 4>>
    /\ result.val = <<57, 40, 35>>

\* a direct call of CalcPixel on initialized Parameters has returned
CalcPixelReturned == mainpc = "called" /\ result.call = "CalcPixel" /\ initErr = "nil"

\* C14: a call of CalcPixel with AntiAlias = N calls mandel N*N times, once
\* for each pair <<xoffset, yoffset>> of the N derived offsets.
EvaluatorCalledPerSubpixel ==
    CalcPixelReturned =>
        LET offsets == {p.subpixOffsets[i] : i \in 1..Len(p.subpixOffsets)} IN
        /\ Len(evalLog) = p.AntiAlias * p.AntiAlias
        /\ Cardinality(offsets) = p.AntiAlias
        /\ \A xo \in offsets, yo \in offsets :
              Cardinality({k \in 1..Len(evalLog) : evalLog[k] = <<xo, yo>>}) = 1

\* the pixel of an image of 1 x 1 with AntiAlias = 3: 9 calls
EvaluatorCalledPerSubpixelWitness ==
    /\ CalcPixelReturned
    /\ p.SizeX = 1 /\ p.SizeY = 1 /\ p.AntiAlias = 3
    /\ args = <<0, 0>>
    /\ Len(evalLog) = 9

\* f < g, for finite f and g
FLt(f, g) == f[1] * g[2] < g[1] * f[2]

\* C15: Init derives N = AntiAlias offsets, offset i being (0.5 + i)/N - 0.5:
\* each lies strictly between -0.5 and 0.5, consecutive offsets are 1/N
\* apart, the sequence is symmetric about 0, and for N = 1 the only offset is
\* 0, CalcPixel then giving the colour of one call of mandel and getColor at
\* the centre of the pixel.
OffsetsDerived ==
    LET N == p.AntiAlias
        o == p.subpixOffsets
    IN  (mainpc \in {"client", "called"} /\ initErr = "nil") =>
          /\ Len(o) = N
          /\ \A i \in 1..N :
                /\ o[i] = Norm[2 * (i - 1) + 1 - N, 2 * N]
                /\ FLt(<<-1, 2>>, o[i]) /\ FLt(o[i], <<1, 2>>)
                /\ i < N => FSub[o[i + 1], o[i]] = Norm[1, N]
                /\ o[i] = FNeg[o[N + 1 - i]]
          /\ N = 1 => o = <<F(0)>>
          /\ (N = 1 /\ CalcPixelReturned) =>
                LET c == getColor(p, mandel(p.MaxIterations, planeX(p, args[1], F(0)),
                                            planeY(p, args[2], F(0)), p.Continuous)).val
                IN  result.val = <<c[1] % 256, c[2] % 256, c[3] % 256, 255>>

\* a pixel computed with the single offset 0
OffsetsDerivedWitness ==
    /\ CalcPixelReturned
    /\ p.AntiAlias = 1 /\ p.subpixOffsets = <<F(0)>>
    /\ p.SizeX = 2 /\ p.SizeY = 2
    /\ result.val = <<10, 20, 30, 255>>

\* C19, as claimed: every channel of every sample of a pixel is in 0..255,
\* each channel of the pixel is the truncated quotient of the sum of the
\* samples by N*N and is in 0..255 before its conversion to 8 bits, and the
\* alpha is 255.
AverageNeverWraps ==
    CalcPixelReturned =>
        LET n == sampleCount(p)
            sums == sumSamples(p, args[1], args[2], n).val
        IN  /\ \A k \in 0..(n - 1), ch \in 1..3 :
                  sample(p, args[1], args[2], k).val[ch] \in 0..255
            /\ \A ch \in 1..3 :
                  /\ GoDiv(sums[ch], n) \in 0..255
                  /\ result.val[ch] = GoDiv(sums[ch], n)
            /\ result.val[4] = 255



\* C16 (as amended): during a render a row worker waits in three places only:
\* for a row; at its send on pixelch, where it has to wait only while pixelch
\* holds SizeX pixels, and then the setting goroutine is at its receive and
\* takes one; at its send on done, where the caller is receiving.  The setting
\* goroutine waits for a pixel, and at its send on done the caller is
\* receiving.
WorkersBlockOnlyOnFullChannel ==
    (Rendering /\ fault = "none") =>
        /\ \A w \in Workers :
              /\ wpc[w] \in {"recv", "calc", "done", "exit"}
              /\ (wpc[w] = "calc" /\ ~(Len(pixelch) < p.SizeX)) =>
                     (Len(pixelch) = p.SizeX /\ aggpc = "recv" /\ ~pixelchClosed)
              /\ wpc[w] = "done" => (mainpc = "wait" /\ doneRecv < fanout)
        /\ aggpc \in {"recv", "done", "exit"}
        /\ aggpc = "done" => mainpc = "final"

\* a worker in the middle of a row of two pixels has to wait at its send:
\* pixelch holds two pixels and the setting goroutine is about to take one
WorkersBlockOnlyOnFullChannelWitness ==
    /\ Rendering /\ fault = "none"
    /\ p.SizeX = 2 /\ Len(pixelch) = 2 /\ aggpc = "recv"
    /\ \E w \in Workers : wpc[w] = "calc" /\ wcol[w] = 1

\* C16 (as claimed): no row worker ever has to wait at its send on pixelch
\* or at its send on done.
WorkersNeverBlockOnSend ==
    (Rendering /\ fault = "none") =>
        \A w \in Workers :
            /\ wpc[w] = "calc" => Len(pixelch) < p.SizeX
            /\ wpc[w] = "done" => (mainpc = "wait" /\ doneRecv < fanout)

\* C17: the rows are handed to the workers in the order 0, 1, ..., SizeY-1:
\* the row handed over is always the number of rows handed over before, so
\* the rows handed over are 0..n-1, each once; rows is closed only when SizeY
\* rows have been handed over.
RowsFedInOrder ==
    /\ [](/\ BagToSet(rowLog) = 0..(BagCardinality(rowLog) - 1)
          /\ \A r \in BagToSet(rowLog) : CopiesIn(r, rowLog) = 1
          /\ rowsClosed => BagCardinality(rowLog) = p.SizeY)
    /\ [][rowLog' # rowLog =>
             rowLog' = rowLog (+) SetToBag({BagCardinality(rowLog)})]_vars

\* with two workers, the first pixel of row 1 has been set and the first
\* pixel of row 0 has not
RowsFedInOrderWitness ==
    /\ Rendering /\ fault = "none"
    /\ fanout > 1
    /\ BagIn(0, rowLog) /\ BagIn(1, rowLog)
    /\ WritesAt(<<0, 1>>) = 1 /\ WritesAt(<<0, 0>>) = 0

\* C21: the channels are closed safely.  No goroutine sends on a closed
\* channel; pixelch is closed only when every worker has sent its last pixel
\* and its signal on done; rows is closed once, by the caller at the end of
\* its feeding loop, with SizeY rows handed over, and stays closed; each of
\* the fanout receives of the waiting loop takes the signal of a worker, and
\* the receive after close(pixelch) takes the signal of the setting goroutine.
ChannelClosingSafe ==
    /\ [](/\ fault # "send on closed channel"
          /\ pixelchClosed =>
                /\ rowsClosed /\ doneRecv = fanout
                /\ \A w \in Workers : wpc[w] = "exit")
    /\ [][rowsClosed' # rowsClosed =>
             /\ ~rowsClosed /\ rowsClosed'
             /\ mainpc = "feed" /\ mainpc' = "wait"
             /\ BagCardinality(rowLog) = p.SizeY]_vars
    /\ [][doneRecv' = doneRecv + 1 =>
             /\ mainpc = "wait" /\ aggpc' = aggpc /\ aggpc = "recv"
             /\ \E w \in Workers : wpc[w] = "done" /\ wpc'[w] = "exit"]_vars
    /\ [][(mainpc = "final" /\ mainpc' = "returned") =>
             (aggpc = "done" /\ aggpc' = "exit" /\ wpc' = wpc)]_vars

\* several workers have ended, pixelch is closed and empty, and the setting
\* goroutine is at its send on done, which the caller is about to receive
ChannelClosingSafeWitness ==
    /\ mainpc = "final" /\ fault = "none"
    /\ fanout > 1 /\ doneRecv = fanout
    /\ rowsClosed /\ pixelchClosed /\ pixelch = << >>
    /\ aggpc = "done"

\* C22 (as claimed): whenever CalcPixel is called with SizeX >= 1, SizeY >= 1
\* and Magnification > 0, the divisor Magnification * (min(SizeX, SizeY) - 1)
\* is not zero, and the plane coordinates of every subpixel are finite.
MappingWellDefined ==
    (/\ CalcPixelReturned
     /\ p.SizeX >= 1 /\ p.SizeY >= 1
     /\ IsFinite(p.Magnification) /\ p.Magnification[1] > 0
     /\ IsFinite(p.CenterX) /\ IsFinite(p.CenterY)) =>
        /\ divisor(p) # F(0)
        /\ \A k \in 1..Len(evalLog) :
              /\ IsFinite(planeX(p, args[1], evalLog[k][1]))
              /\ IsFinite(planeY(p, args[2], evalLog[k][2]))

====
